---- MODULE Spec2Model ----
(***************************************************************************)
(* Library loans: the borrow / return views of catalog/views.py and the    *)
(* admin bulk action of catalog/admin.py, as concurrent HTTP requests over *)
(* one database.  Each request is a process; each ORM query or save is one *)
(* atomic step (Django's default autocommit: the views open no             *)
(* transaction and take no row lock), and what a view keeps in Python      *)
(* variables between two queries is the process's local state.             *)
(***************************************************************************)
EXTENDS Integers, Sequences, FiniteSets, TLC

\* ---------------------------------------------------------------- bounds
NumProcs == 2
MaxCopies == 2
MaxLoans == 2
MaxTime == 1
MaxPage == 3
MaxSearches == 1
MaxDay == 15

\* ------------------------------------------------------ program constants
LoanDays == 14

Procs == 1..NumProcs
Shelf == {"A", "B"}
Users == {"ana", "bob"}
Staff == {"bob"}
Methods == {"GET", "POST"}
NULL == << >>

VARIABLES
  copies_total,   \* Book.copies_total, per book
  loans,          \* the Loan table: loan id -> row
  now,            \* the clock: what timezone.now() returned last
  today,          \* the calendar: what timezone.localdate() returns
  pc,             \* each request's position in its view
  req,            \* each request: view, user, method, ids
  local,          \* each request's Python locals between two queries
  outcome,        \* each request's response, once the view has returned
  workers,        \* how many requests the server runs at once
  writes,         \* history: how often each loan's returned_at was saved
  book,           \* the Book table: book id -> row (all but copies_total)
  query,          \* the filters and sort key of the search being made
  searches,       \* the SearchQuery table
  response,       \* what a read-only view has rendered for each request
  shown           \* history: what the listing has shown for this search

vars == <<copies_total, loans, now, today, pc, req, local, outcome, workers,
         writes, book, query, searches, response, shown>>

\* what the borrow and return views never touch
catalog == <<book, query, searches, response, shown>>

Books == DOMAIN copies_total
BookIds == Books \cup {"none"}

\* request.GET of book_list, less the filters and sort key kept in query
NoGET == [suggest |-> "", export |-> "", mostrar |-> "", page |-> << >>]

NoReq == [view |-> "", user |-> "", method |-> "", book_id |-> "none",
          loan_id |-> 0, sel |-> {}]
NoLocal == [now |-> 0, todo |-> {}, updated |-> 0]

\* ------------------------------------------------------------ pure parts
\* faulty variant: every user passes the test
is_staff_any(user) == TRUE

is_staff(user) == user \in Staff

localdate == today

\* faulty variant: the count is not restricted to the book
ActiveLoanIds_any(b) == {i \in DOMAIN loans : loans[i].returned_at = NULL}

ActiveLoanIds(b) ==
  {i \in DOMAIN loans : loans[i].book = b /\ loans[i].returned_at = NULL}

active_loans(b) == Cardinality(ActiveLoanIds(b))

\* faulty variant: the last copy is counted as still free
NoCopies_gt(active, total) == active > total

NoCopies(active, total) == active >= total

\* faulty variant: the loan period starts a day early
due_date_short == localdate + LoanDays - 1

due_date == localdate + LoanDays

NewLoan(b, u) ==
  [book |-> b, user |-> u, due_date |-> due_date, returned_at |-> NULL]

\* timezone.now() never returns less than it did before.
Clock == now..MaxTime

mark_returned(loan, t) == [loan EXCEPT !.returned_at = <<t>>]

\* faulty variant: the method check is left out
MethodAllowed_any(m) == TRUE

MethodAllowed(m) == m = "POST"

\* faulty variant: the lookup leaves out the user filter
get_own_loan_any(id, u) == id \in DOMAIN loans

get_own_loan(id, u) == id \in DOMAIN loans /\ loans[id].user = u

get_loan(id) == id \in DOMAIN loans

\* faulty variant: the loans are not subtracted
disponiveis_total(b) == copies_total[b]

disponiveis(b) == copies_total[b] - active_loans(b)

Max(a, b) == IF a >= b THEN a ELSE b

\* faulty variant: the difference is not clamped at 0
export_available_raw(b) == copies_total[b] - active_loans(b)

export_available(b) == Max(copies_total[b] - active_loans(b), 0)

only_available(b) == active_loans(b) < copies_total[b]

\* ------------------------------------------------------------------ text
\* A text is a sequence of characters.  The characters told apart are a
\* letter in both cases, the space, decimal digits, and "sup2": a character
\* such as a superscript two, for which str.isdigit() is true and int()
\* raises ValueError.
Decimals == {"1", "2"}
Digits == Decimals \cup {"sup2"}

LowerChar(c) == CASE c = "A" -> "a" [] c = "B" -> "b" [] OTHER -> c

Lower(s) == [i \in 1..Len(s) |-> LowerChar(s[i])]

Code(c) ==
  CASE c = " " -> 0 [] c = "1" -> 1 [] c = "2" -> 2 [] c = "A" -> 3
    [] c = "B" -> 4 [] c = "a" -> 5 [] c = "b" -> 6 [] OTHER -> 7

RECURSIVE TextLess(_, _)
TextLess(s, t) ==
  IF s = << >> THEN t # << >>
  ELSE IF t = << >> THEN FALSE
  ELSE IF s[1] = t[1] THEN TextLess(Tail(s), Tail(t))
  ELSE Code(s[1]) < Code(t[1])

RECURSIVE lstrip(_)
lstrip(s) == IF s # << >> /\ s[1] = " " THEN lstrip(Tail(s)) ELSE s

RECURSIVE rstrip(_)
rstrip(s) ==
  IF s # << >> /\ s[Len(s)] = " "
    THEN rstrip(SubSeq(s, 1, Len(s) - 1))
    ELSE s

strip(s) == rstrip(lstrip(s))

contains(s, t) ==
  \E i \in 0..(Len(s) - Len(t)) : SubSeq(s, i + 1, i + Len(t)) = t

icontains(s, t) == contains(Lower(s), Lower(t))

iexact(s, t) == Lower(s) = Lower(t)

isdigit(s) == s # << >> /\ \A i \in 1..Len(s) : s[i] \in Digits

int_raises(s) == \E i \in 1..Len(s) : s[i] \notin Decimals

DigitValue(c) == IF c = "1" THEN 1 ELSE 2

RECURSIVE int(_)
int(s) ==
  IF s = << >>
    THEN 0
    ELSE 10 * int(SubSeq(s, 1, Len(s) - 1)) + DigitValue(s[Len(s)])

Min(a, b) == IF a <= b THEN a ELSE b

\* ------------------------------------------------------------ Book rows
BookRow(id, title, author, isbn, category, language, edition_year) ==
  [id |-> id, title |-> title, author |-> author, isbn |-> isbn,
   category |-> category, language |-> language,
   edition_year |-> edition_year]

\* category and edition_year are nullable: << >> or <<value>>
TwoBooks ==
  [A |-> BookRow(1, <<"A", "b">>, <<"B">>, <<"1">>, <<1>>, <<"a">>, <<1>>),
   B |-> BookRow(2, <<"b">>, <<"a">>, <<"1", "2">>, <<2>>, <<"A">>, <<2>>)]

ThreeBooks ==
  [A |-> TwoBooks.A,
   B |-> TwoBooks.B,
   C |-> BookRow(3, <<"B">>, <<"A", "b">>, <<"2">>, << >>, <<"b">>, << >>)]

ThreeCopies == [A |-> 2, B |-> 0, C |-> 1]

CategoryName(id) == IF id = 1 THEN <<"a">> ELSE <<"b">>

\* -------------------------------------------- book_list: filters and sort
NoQuery ==
  [q |-> << >>, title |-> << >>, author |-> << >>, isbn |-> << >>,
   disponivel |-> "", categoria |-> << >>, idioma |-> << >>,
   ano_min |-> << >>, ano_max |-> << >>, ordenar |-> "title"]

\* faulty variant: the field filters also apply when q is given
text_filter_all(b, G) ==
  LET q == strip(G.q)
      title_param == strip(G.title)
      author_param == strip(G.author)
      isbn_param == strip(G.isbn)
  IN  /\ q # << >> =>
           \/ icontains(book[b].title, q)
           \/ icontains(book[b].author, q)
           \/ icontains(book[b].isbn, q)
      /\ title_param # << >> => icontains(book[b].title, title_param)
      /\ author_param # << >> => icontains(book[b].author, author_param)
      /\ isbn_param # << >> => icontains(book[b].isbn, isbn_param)

text_filter(b, G) ==
  LET q == strip(G.q)
      title_param == strip(G.title)
      author_param == strip(G.author)
      isbn_param == strip(G.isbn)
  IN  IF q # << >>
        THEN \/ icontains(book[b].title, q)
             \/ icontains(book[b].author, q)
             \/ icontains(book[b].isbn, q)
        ELSE /\ title_param # << >> => icontains(book[b].title, title_param)
             /\ author_param # << >> => icontains(book[b].author, author_param)
             /\ isbn_param # << >> => icontains(book[b].isbn, isbn_param)

show_only_available(G) == G.disponivel = "1"

category_filter(b, G) ==
  (G.categoria # << >> /\ isdigit(G.categoria)) =>
     book[b].category = <<int(G.categoria)>>

language_filter(b, G) ==
  strip(G.idioma) # << >> => iexact(book[b].language, strip(G.idioma))

year_filter(b, G) ==
  /\ (G.ano_min # << >> /\ isdigit(G.ano_min)) =>
        (book[b].edition_year # << >>
           /\ book[b].edition_year[1] >= int(G.ano_min))
  /\ (G.ano_max # << >> /\ isdigit(G.ano_max)) =>
        (book[b].edition_year # << >>
           /\ book[b].edition_year[1] <= int(G.ano_max))

\* the filter call or the int() call raises ValueError
raises_ValueError(G) ==
  \/ isdigit(G.categoria) /\ int_raises(G.categoria)
  \/ isdigit(G.ano_min) /\ int_raises(G.ano_min)
  \/ isdigit(G.ano_max) /\ int_raises(G.ano_max)

qs_filter(G) ==
  {b \in Books :
     /\ text_filter(b, G)
     /\ show_only_available(G) => only_available(b)
     /\ category_filter(b, G)
     /\ language_filter(b, G)
     /\ year_filter(b, G)}

\* ORDER BY: b1 sorts strictly before b2 on the sort key
Before(b1, b2, ordenar) ==
  IF ordenar = "author"
    THEN \/ TextLess(Lower(book[b1].author), Lower(book[b2].author))
         \/ /\ Lower(book[b1].author) = Lower(book[b2].author)
            /\ TextLess(book[b1].title, book[b2].title)
  ELSE IF ordenar = "disponibilidade"
    THEN \/ disponiveis(b1) < disponiveis(b2)
         \/ /\ disponiveis(b1) = disponiveis(b2)
            /\ TextLess(book[b1].title, book[b2].title)
  ELSE TextLess(Lower(book[b1].title), Lower(book[b2].title))

\* Rows that are equal on the sort key come in an order the database
\* chooses, query by query: here by ascending or by descending id.
Ties == {"asc", "desc"}

First(b1, b2, ordenar, tie) ==
  \/ Before(b1, b2, ordenar)
  \/ /\ ~Before(b2, b1, ordenar)
     /\ IF tie = "asc" THEN book[b1].id < book[b2].id
                       ELSE book[b1].id > book[b2].id

\* the rows of S, each at the place its rank gives it
Placed(S, rank) ==
  [i \in 1..Cardinality(S) |-> CHOOSE b \in S : rank[b] = i - 1]

order_by(S, ordenar, tie) ==
  Placed(S, [b \in S |->
               Cardinality({y \in S \ {b} : First(y, b, ordenar, tie)})])

\* --------------------------------------------------- book_list: Paginator
PageSize == 20
limite == 8

num_pages(count) ==
  IF count = 0 THEN 1 ELSE (count + PageSize - 1) \div PageSize

\* Paginator.get_page: not an integer -> page 1, out of range -> last page
get_page(page, count) ==
  IF page = << >> THEN 1
  ELSE IF page[1] < 1 \/ page[1] > num_pages(count) THEN num_pages(count)
  ELSE page[1]

object_list(all, number) ==
  SubSeq(all, (number - 1) * PageSize + 1, Min(number * PageSize, Len(all)))

head(all, n) == SubSeq(all, 1, Min(n, Len(all)))

\* ------------------------------------------------------ book_list: export
export_row(b) ==
  [book |-> b,
   title |-> book[b].title,
   author |-> book[b].author,
   isbn |-> book[b].isbn,
   available |-> export_available(b),
   category |-> IF book[b].category # << >>
                  THEN CategoryName(book[b].category[1]) ELSE << >>,
   language |-> book[b].language,
   edition_year |-> IF book[b].edition_year \in {<< >>, <<0>>}
                      THEN << >> ELSE book[b].edition_year]

export_rows(all) == [i \in 1..Len(all) |-> export_row(all[i])]

\* ----------------------------------------------------- book_list: history
\* faulty variant: only the text fields count as a search
any_filter_text(G) ==
  \/ strip(G.q) # << >>
  \/ strip(G.title) # << >>
  \/ strip(G.author) # << >>
  \/ strip(G.isbn) # << >>

any_filter(G) ==
  \/ strip(G.q) # << >>
  \/ strip(G.title) # << >>
  \/ strip(G.author) # << >>
  \/ strip(G.isbn) # << >>
  \/ show_only_available(G)
  \/ G.categoria # << >>
  \/ strip(G.idioma) # << >>
  \/ G.ano_min # << >>
  \/ G.ano_max # << >>

NewSearchQuery(u, G) == [user |-> u, q |-> strip(G.q)]

NoResponse ==
  [kind |-> "", books |-> << >>, rows |-> << >>, number |-> 0,
   num_pages |-> 0, total_count |-> 0, titles |-> << >>, authors |-> << >>,
   isbns |-> << >>, loans |-> {}, history |-> ""]

\* kept only where on is set
NoShown == [on |-> FALSE, todos |-> << >>, pages |-> << >>]

\* ------------------------------------------------------------------ Init
\* Nothing in the views tells one book from another, so of two catalogues
\* that differ only by swapping the books one is kept.
Catalogues == {c \in [Shelf -> 0..MaxCopies] : c["A"] >= c["B"]}

\* no request in the server
NoRequests ==
  /\ pc = [p \in Procs |-> "idle"]
  /\ req = [p \in Procs |-> NoReq]
  /\ local = [p \in Procs |-> NoLocal]
  /\ outcome = [p \in Procs |-> ""]
  /\ response = [p \in Procs |-> NoResponse]

\* no loan yet, no search yet
Idle ==
  /\ loans = << >>
  /\ today = 0
  /\ writes = << >>
  /\ searches = << >>
  /\ NoRequests

Start ==
  /\ copies_total \in Catalogues
  /\ now = 0
  /\ book = TwoBooks
  /\ query = NoQuery
  /\ shown = NoShown
  /\ Idle

\* The server runs as many requests at once as it has slots ...
Init == Start /\ workers = NumProcs

\* ... or one request at a time.
InitSerial == Start /\ workers = 1

\* The view returns its response.  Sending it touches nothing shared, so
\* it is sent (Respond) before any other request moves.
NoneDone == \A q \in Procs : pc[q] # "done"

Finish(p, o) ==
  /\ pc' = [pc EXCEPT ![p] = "done"]
  /\ outcome' = [outcome EXCEPT ![p] = o]

Goto(p, l) ==
  /\ pc' = [pc EXCEPT ![p] = l]
  /\ UNCHANGED outcome

\* A request takes the lowest free slot (free slots are interchangeable).
Running == {q \in Procs : pc[q] # "idle"}

Free(p) ==
  /\ NoneDone
  /\ pc[p] = "idle"
  /\ Cardinality(Running) < workers
  /\ \A q \in Procs : q < p => pc[q] # "idle"

Respond(p) ==
  /\ pc[p] = "done"
  /\ pc' = [pc EXCEPT ![p] = "idle"]
  /\ req' = [req EXCEPT ![p] = NoReq]
  /\ local' = [local EXCEPT ![p] = NoLocal]
  /\ outcome' = [outcome EXCEPT ![p] = ""]
  /\ response' = [response EXCEPT ![p] = NoResponse]
  /\ UNCHANGED <<book, query, searches, shown, copies_total, loans, now, today,
                 workers, writes>>

\* A request refused before its view has read the row it is about (a 404,
\* a redirect to the login page) leaves no trace: the step changes nothing.
Refused(r) == r \in {"Http404", "LoginRedirect"}

\* ----------------------------------------------------------- borrow_book
borrow_book_response(b, m) ==
  IF b \notin Books \/ ~MethodAllowed(m) THEN "Http404" ELSE "count"

borrow_book_get(p) ==
  /\ Free(p)
  /\ \E u \in Users, b \in BookIds, m \in Methods :
       IF Refused(borrow_book_response(b, m))
         THEN UNCHANGED <<req, pc, outcome>>
         ELSE /\ req' = [req EXCEPT ![p] = [NoReq EXCEPT
                            !.view = "borrow_book",
                            !.user = u, !.method = m, !.book_id = b]]
              /\ Goto(p, "count")
  /\ UNCHANGED <<catalog, copies_total, loans, now, today, local, workers, writes>>

borrow_book_count(p) ==
  /\ NoneDone
  /\ pc[p] = "count"
  /\ IF NoCopies(active_loans(req[p].book_id), copies_total[req[p].book_id])
       THEN Finish(p, "NoCopiesAvailable")
       ELSE Goto(p, "create")
  /\ UNCHANGED <<catalog, copies_total, loans, now, today, req, local, workers, writes>>

borrow_book_create(p) ==
  /\ NoneDone
  /\ pc[p] = "create"
  /\ Len(loans) < MaxLoans
  /\ loans' = Append(loans, NewLoan(req[p].book_id, req[p].user))
  /\ writes' = Append(writes, 0)
  /\ Finish(p, "Borrowed")
  /\ UNCHANGED <<catalog, copies_total, now, today, req, local, workers>>

\* ----------------------------------------------------------- return_book
\* faulty variant: the view does not look at returned_at before marking
return_book_response_remark(u, id, m) ==
  IF ~get_own_loan(id, u) \/ ~MethodAllowed(m) THEN "Http404" ELSE "mark"

return_book_response(u, id, m) ==
  IF ~get_own_loan(id, u) \/ ~MethodAllowed(m)
    THEN "Http404"
    ELSE IF loans[id].returned_at # NULL THEN "AlreadyReturned" ELSE "mark"

return_book_get(p) ==
  /\ Free(p)
  /\ \E u \in Users, id \in 1..(Len(loans) + 1), m \in Methods :
       LET r == return_book_response(u, id, m)
       IN  IF Refused(r)
             THEN UNCHANGED <<req, pc, outcome>>
             ELSE /\ req' = [req EXCEPT ![p] = [NoReq EXCEPT
                                !.view = "return_book",
                                !.user = u, !.method = m, !.loan_id = id]]
                  /\ IF r = "mark" THEN Goto(p, "mark") ELSE Finish(p, r)
  /\ UNCHANGED <<catalog, copies_total, loans, now, today, local, workers, writes>>

return_book_mark(p) ==
  /\ NoneDone
  /\ pc[p] = "mark"
  /\ req[p].view = "return_book"
  /\ \E t \in Clock :
       /\ now' = t
       /\ loans' = [loans EXCEPT ![req[p].loan_id] = mark_returned(@, t)]
  /\ writes' = [writes EXCEPT ![req[p].loan_id] = @ + 1]
  /\ Finish(p, "Returned")
  /\ UNCHANGED <<catalog, copies_total, today, req, local, workers>>

\* --------------------------------------------------- admin_mark_returned
admin_mark_returned_response(u, id, m) ==
  IF ~is_staff(u)
    THEN "LoginRedirect"
    ELSE IF ~get_loan(id) \/ ~MethodAllowed(m)
           THEN "Http404"
           ELSE IF loans[id].returned_at # NULL THEN "Redirect" ELSE "mark"

admin_mark_returned_get(p) ==
  /\ Free(p)
  /\ \E u \in Users, id \in 1..(Len(loans) + 1), m \in Methods :
       LET r == admin_mark_returned_response(u, id, m)
       IN  IF Refused(r)
             THEN UNCHANGED <<req, pc, outcome>>
             ELSE /\ req' = [req EXCEPT ![p] = [NoReq EXCEPT
                                !.view = "admin_mark_returned",
                                !.user = u, !.method = m, !.loan_id = id]]
                  /\ IF r = "mark" THEN Goto(p, "mark") ELSE Finish(p, r)
  /\ UNCHANGED <<catalog, copies_total, loans, now, today, local, workers, writes>>

admin_mark_returned_mark(p) ==
  /\ NoneDone
  /\ pc[p] = "mark"
  /\ req[p].view = "admin_mark_returned"
  /\ \E t \in Clock :
       /\ now' = t
       /\ loans' = [loans EXCEPT ![req[p].loan_id] = mark_returned(@, t)]
  /\ writes' = [writes EXCEPT ![req[p].loan_id] = @ + 1]
  /\ Finish(p, "Returned")
  /\ UNCHANGED <<catalog, copies_total, today, req, local, workers>>

\* ------------------------------------------- LoanAdmin.marcar_como_devolvido
marcar_como_devolvido_query(p) ==
  /\ Free(p)
  /\ \E u \in Staff, sel \in (SUBSET DOMAIN loans) \ {{}}, t \in Clock :
       LET todo == {i \in sel : loans[i].returned_at = NULL}
       IN  /\ req' = [req EXCEPT ![p] = [NoReq EXCEPT
                         !.view = "marcar_como_devolvido",
                         !.user = u, !.method = "POST", !.sel = sel]]
           /\ now' = t
           /\ local' = [local EXCEPT ![p] = [NoLocal EXCEPT
                           !.now = t, !.todo = todo]]
           /\ IF todo = {} THEN Finish(p, "Updated") ELSE Goto(p, "save")
  /\ UNCHANGED <<catalog, copies_total, loans, today, workers, writes>>

marcar_como_devolvido_save(p) ==
  /\ NoneDone
  /\ pc[p] = "save"
  /\ \E i \in local[p].todo :
       /\ loans' = [loans EXCEPT ![i].returned_at = <<local[p].now>>]
       /\ writes' = [writes EXCEPT ![i] = @ + 1]
       /\ local' = [local EXCEPT ![p].todo = @ \ {i},
                                 ![p].updated = @ + 1]
       /\ IF local[p].todo = {i} THEN Finish(p, "Updated") ELSE Goto(p, "save")
  /\ UNCHANGED <<catalog, copies_total, now, today, req, workers>>

\* -------------------------------------------------------------- book_list
PageParams == {<< >>} \cup {<<n>> : n \in 0..MaxPage}

Shapes ==
  {[NoGET EXCEPT !.page = pg] : pg \in PageParams}
    \cup {[NoGET EXCEPT !.mostrar = "todos"],
          [NoGET EXCEPT !.suggest = "1"],
          [NoGET EXCEPT !.export = "csv"],
          [NoGET EXCEPT !.export = "xlsx"],
          [NoGET EXCEPT !.suggest = "1", !.export = "csv"]}

listing_response(all, g) ==
  IF g.mostrar = "todos"
    THEN [NoResponse EXCEPT !.kind = "listing", !.books = all,
                            !.total_count = Len(all)]
    ELSE [NoResponse EXCEPT !.kind = "listing",
            !.books = object_list(all, get_page(g.page, Len(all))),
            !.number = get_page(g.page, Len(all)),
            !.num_pages = num_pages(Len(all)),
            !.total_count = Len(all)]

show(all, g) ==
  IF ~shown.on THEN shown
  ELSE IF g.mostrar = "todos" THEN [shown EXCEPT !.todos = <<all>>]
  ELSE LET number == get_page(g.page, Len(all))
       IN  [shown EXCEPT !.pages =
              [n \in (DOMAIN shown.pages) \cup {number} |->
                 IF n = number THEN object_list(all, number)
                               ELSE shown.pages[n]]]

Render(p, r) ==
  /\ response' = [response EXCEPT ![p] = r]
  /\ Finish(p, r.kind)

\* the view from the history block on: the listing is computed, the
\* SearchQuery is saved if any filter is set, the template renders the page
book_list_listing(p, u, g, qs) ==
  \E tie \in Ties :
    IF any_filter(query)
      THEN \E session_key \in {"", "k"}, created, saved \in BOOLEAN :
             IF session_key = "" /\ ~created
               THEN /\ Render(p, [NoResponse EXCEPT !.kind = "SessionError"])
                    /\ UNCHANGED <<searches, shown>>
               ELSE /\ IF saved
                         THEN /\ Len(searches) < MaxSearches
                              /\ searches' =
                                   Append(searches, NewSearchQuery(u, query))
                         ELSE UNCHANGED searches
                    /\ Render(p, [listing_response(qs[tie], g) EXCEPT
                                    !.history = IF saved THEN "saved"
                                                         ELSE "failed"])
                    /\ shown' = show(qs[tie], g)
      ELSE /\ Render(p, listing_response(qs[tie], g))
           /\ shown' = show(qs[tie], g)
           /\ UNCHANGED searches

book_list_suggest(p, qs) ==
  \E t1, t2, t3 \in Ties :
    /\ Render(p, [NoResponse EXCEPT !.kind = "suggest",
                    !.titles = head(qs[t1], limite),
                    !.authors = head(qs[t2], limite),
                    !.isbns = head(qs[t3], limite)])
    /\ UNCHANGED <<searches, shown>>

\* faulty variant: the export goes through the history block
book_list_export_recorded(p, format, qs) ==
  \E tie \in Ties :
    /\ Render(p, [NoResponse EXCEPT !.kind = format,
                                    !.rows = export_rows(qs[tie])])
    /\ IF any_filter(query) /\ Len(searches) < MaxSearches
         THEN searches' = Append(searches,
                                 NewSearchQuery(req'[p].user, query))
         ELSE UNCHANGED searches
    /\ UNCHANGED shown

book_list_export(p, format, qs) ==
  \E tie \in Ties :
    /\ Render(p, [NoResponse EXCEPT !.kind = format,
                                    !.rows = export_rows(qs[tie])])
    /\ UNCHANGED <<searches, shown>>

\* qs: the filtered, ordered queryset, as each of its evaluations may come
book_list_view(p, qs) ==
  \E u \in Users, g \in Shapes :
    /\ req' = [req EXCEPT ![p] = [NoReq EXCEPT
                  !.view = "book_list", !.user = u, !.method = "GET"]]
    /\ IF raises_ValueError(query)
         THEN /\ Render(p, [NoResponse EXCEPT !.kind = "ValueError"])
              /\ UNCHANGED <<searches, shown>>
       ELSE IF g.suggest = "1" /\ strip(query.q) # << >>
         THEN book_list_suggest(p, qs)
       ELSE IF g.export = "csv"
         THEN book_list_export(p, "csv", qs)
       ELSE IF g.export = "xlsx"
         THEN \E openpyxl \in BOOLEAN :
                IF openpyxl
                  THEN book_list_export(p, "xlsx", qs)
                  ELSE /\ Render(p, [NoResponse EXCEPT
                              !.kind = "ExportBackendUnavailable"])
                       /\ UNCHANGED <<searches, shown>>
       ELSE book_list_listing(p, u, g, qs)

book_list(p) ==
  /\ Free(p)
  /\ \E qs \in {[tie \in Ties |->
                    order_by(qs_filter(query), query.ordenar, tie)]} :
       book_list_view(p, qs)
  /\ UNCHANGED <<copies_total, loans, now, today, local, workers, writes,
                 book, query>>

\* --------------------------------------------------------- search_history
HistoryLimit == 100

search_history(p) ==
  /\ Free(p)
  /\ \E u \in Users, export \in {"", "csv", "xlsx"} :
       /\ req' = [req EXCEPT ![p] = [NoReq EXCEPT
                     !.view = "search_history", !.user = u, !.method = "GET"]]
       /\ \E openpyxl \in BOOLEAN :
            IF export = "xlsx" /\ ~openpyxl
              THEN Render(p, [NoResponse EXCEPT
                                !.kind = "ExportBackendUnavailable"])
              ELSE Render(p, [NoResponse EXCEPT
                     !.kind = IF export \in {"csv", "xlsx"}
                                THEN export ELSE "history",
                     !.rows = head(SelectSeq(searches,
                                     LAMBDA sq : sq.user = u), HistoryLimit)])
  /\ UNCHANGED <<copies_total, loans, now, today, local, workers, writes,
                 book, query, searches, shown>>

\* --------------------------------------------------------------- my_loans
\* faulty variant: listing a user's loans closes them
my_loans_closes(p) ==
  /\ Free(p)
  /\ \E u \in Users :
       /\ req' = [req EXCEPT ![p] = [NoReq EXCEPT
                     !.view = "my_loans", !.user = u, !.method = "GET"]]
       /\ Render(p, [NoResponse EXCEPT !.kind = "my_loans",
            !.loans = {i \in DOMAIN loans : loans[i].user = u}])
       /\ loans' = [i \in DOMAIN loans |->
                      IF loans[i].user = u /\ loans[i].returned_at = NULL
                        THEN mark_returned(loans[i], now) ELSE loans[i]]
  /\ UNCHANGED <<copies_total, now, today, local, workers, writes,
                 book, query, searches, shown>>

my_loans(p) ==
  /\ Free(p)
  /\ \E u \in Users :
       /\ req' = [req EXCEPT ![p] = [NoReq EXCEPT
                     !.view = "my_loans", !.user = u, !.method = "GET"]]
       /\ Render(p, [NoResponse EXCEPT !.kind = "my_loans",
            !.loans = {i \in DOMAIN loans : loans[i].user = u}])
  /\ UNCHANGED <<copies_total, loans, now, today, local, workers, writes,
                 book, query, searches, shown>>

\* --------------------------------------------------- admin_book_borrowers
admin_book_borrowers_response(u, b) ==
  IF ~is_staff(u) THEN "LoginRedirect"
  ELSE IF b \notin Books THEN "Http404"
  ELSE "borrowers"

admin_book_borrowers(p) ==
  /\ Free(p)
  /\ \E u \in Users, b \in BookIds :
       IF Refused(admin_book_borrowers_response(u, b))
         THEN UNCHANGED <<req, pc, outcome, response>>
         ELSE /\ req' = [req EXCEPT ![p] = [NoReq EXCEPT
                            !.view = "admin_book_borrowers", !.user = u,
                            !.method = "GET", !.book_id = b]]
              /\ Render(p, [NoResponse EXCEPT !.kind = "borrowers",
                   !.loans = ActiveLoanIds(b)])
  /\ UNCHANGED <<copies_total, loans, now, today, local, workers, writes,
                 book, query, searches, shown>>

\* ---------------------------------------------------- admin_overdue_loans
\* faulty variant: a loan due today is already overdue
overdue_le(day) ==
  {i \in DOMAIN loans :
     loans[i].returned_at = NULL /\ loans[i].due_date <= day}

overdue(day) ==
  {i \in DOMAIN loans :
     loans[i].returned_at = NULL /\ loans[i].due_date < day}

admin_overdue_loans(p) ==
  /\ Free(p)
  /\ \E u \in Users :
       IF ~is_staff(u)
         THEN UNCHANGED <<req, pc, outcome, response>>
         ELSE /\ req' = [req EXCEPT ![p] = [NoReq EXCEPT
                            !.view = "admin_overdue_loans", !.user = u,
                            !.method = "GET"]]
              /\ Render(p, [NoResponse EXCEPT !.kind = "overdue",
                   !.loans = overdue(localdate)])
  /\ UNCHANGED <<copies_total, loans, now, today, local, workers, writes,
                 book, query, searches, shown>>

\* ------------------------------------------------------------------ Next
Step(p) ==
  \/ borrow_book_get(p)
  \/ borrow_book_count(p)
  \/ borrow_book_create(p)
  \/ return_book_get(p)
  \/ return_book_mark(p)
  \/ admin_mark_returned_get(p)
  \/ admin_mark_returned_mark(p)
  \/ marcar_como_devolvido_query(p)
  \/ marcar_como_devolvido_save(p)
  \/ Respond(p)

Next == \E p \in Procs : Step(p)

Spec == Init /\ [][Next]_vars

SpecSerial == InitSerial /\ [][Next]_vars

\* Borrow requests alone, as many at once as the server has slots.
NextBooks ==
  \E p \in Procs :
    \/ borrow_book_get(p)
    \/ borrow_book_count(p)
    \/ borrow_book_create(p)
    \/ Respond(p)

SpecBooks == Init /\ [][NextBooks]_vars

\* Borrowing, returning and the overdue listing as the days pass.
\* The days looked at: the first, and those from the day its loans fall due.
Days == {0} \cup LoanDays..MaxDay

next_day ==
  /\ NoneDone
  /\ \E d \in Days :
       /\ d > today
       /\ today' = d
  /\ UNCHANGED <<catalog, copies_total, loans, now, pc, req, local, outcome,
                 workers, writes>>

InitOverdue ==
  /\ copies_total = [b \in Shelf |-> MaxCopies]
  /\ now = MaxTime
  /\ book = TwoBooks
  /\ query = NoQuery
  /\ shown = NoShown
  /\ Idle
  /\ workers = 1

NextOverdue ==
  \/ \E p \in Procs :
       \/ borrow_book_get(p)
       \/ borrow_book_count(p)
       \/ borrow_book_create(p)
       \/ return_book_get(p)
       \/ return_book_mark(p)
       \/ admin_overdue_loans(p)
       \/ Respond(p)
  \/ next_day

SpecOverdue == InitOverdue /\ [][NextOverdue]_vars

\* The search, over a shelf of three books with some loans made, and over
\* a shelf long enough for a second page.
MaxBooks == 21

Settings ==
  {<<"q", <<" ">>>>, <<"q", <<"b">>>>, <<"q", <<"A", "B">>>>,
   <<"q", <<" ", "1", " ">>>>,
   <<"title", <<"a">>>>, <<"title", <<" ">>>>,
   <<"author", <<"B">>>>, <<"isbn", <<"2">>>>,
   <<"disponivel", "1">>, <<"disponivel", "0">>,
   <<"categoria", <<"1">>>>, <<"categoria", <<"a">>>>,
   <<"categoria", <<"sup2">>>>,
   <<"idioma", <<"A">>>>, <<"idioma", <<" ">>>>,
   <<"ano_min", <<"2">>>>, <<"ano_min", <<"a">>>>,
   <<"ano_min", <<"sup2">>>>,
   <<"ano_max", <<"1">>>>, <<"ano_max", <<"b">>>>,
   <<"ordenar", "author">>, <<"ordenar", "disponibilidade">>,
   <<"ordenar", "x">>}

Seeds ==
  {<<"q", <<"b">>>>, <<"title", <<"a">>>>, <<"disponivel", "1">>,
   <<"ordenar", "disponibilidade">>}

With(G, kv) == [G EXCEPT ![kv[1]] = kv[2]]

Queries ==
  {NoQuery} \cup {With(NoQuery, kv) : kv \in Settings}
            \cup {With(With(NoQuery, s), kv) : s \in Seeds, kv \in Settings}

BrowseQueries ==
  {NoQuery,
   [NoQuery EXCEPT !.ordenar = "author"],
   [NoQuery EXCEPT !.ordenar = "disponibilidade"],
   [NoQuery EXCEPT !.q = <<"a">>]}

\* the books of the long shelf: titles equal but for their case, each
\* author different from every other
Binary(i, chars) ==
  [k \in 1..5 |-> IF (i \div (2 ^ (5 - k))) % 2 = 1 THEN chars[2]
                                                     ELSE chars[1]]

ManyBooks ==
  [i \in 1..MaxBooks |->
     BookRow(i, IF i % 2 = 0 THEN <<"A">> ELSE <<"a">>,
             Binary(i, <<"a", "b">>), Binary(i, <<"1", "2">>),
             << >>, <<"a">>, << >>)]

LoanTables ==
  {<< >>,
   <<NewLoan("A", "ana"), NewLoan("A", "bob")>>,
   <<mark_returned(NewLoan("C", "bob"), 0), NewLoan("C", "ana")>>,
   <<NewLoan("B", "ana")>>}

InitList ==
  /\ now = 0
  /\ today = 0
  /\ workers = 1
  /\ searches = << >>
  /\ NoRequests
  /\ \/ /\ book = ThreeBooks
        /\ copies_total = ThreeCopies
        /\ loans \in LoanTables
        /\ query \in Queries
        /\ shown = NoShown
     \/ /\ book = ManyBooks
        /\ copies_total = [i \in 1..MaxBooks |-> 1]
        /\ loans = << >>
        /\ query \in BrowseQueries
        /\ shown = [NoShown EXCEPT !.on = TRUE]
  /\ writes = [i \in DOMAIN loans |->
                 IF loans[i].returned_at = NULL THEN 0 ELSE 1]

NextList == \E p \in Procs : book_list(p) \/ Respond(p)

SpecList == InitList /\ [][NextList]_vars

\* The whole site, one request at a time, over a shelf of three books.
ReadQueries ==
  {[NoQuery EXCEPT !.ordenar = "disponibilidade"],
   [NoQuery EXCEPT !.q = <<"b">>, !.ordenar = "disponibilidade"]}

InitReads ==
  /\ copies_total = ThreeCopies
  /\ now = MaxTime
  /\ book = ThreeBooks
  /\ query \in ReadQueries
  /\ shown = NoShown
  /\ Idle
  /\ workers = 1

Read(p) ==
  \/ book_list(p)
  \/ search_history(p)
  \/ my_loans(p)
  \/ admin_book_borrowers(p)
  \/ admin_overdue_loans(p)

NextReads == \E p \in Procs : Step(p) \/ Read(p)

SpecReads == InitReads /\ [][NextReads]_vars

\* ------------------------------------------------------------ vocabulary
LoanIds == DOMAIN loans
LoansOf(b) == {i \in LoanIds : loans[i].book = b}
NeverReturned(b) == \A i \in LoansOf(b) : writes[i] = 0
Answered(p, v, o) == pc[p] = "done" /\ req[p].view = v /\ outcome[p] = o

\* ---------------------------------------------------------------- claims

\* C1: for every book, the number of loans with returned_at null is between
\* 0 and the book's copies_total, in every reachable state.
C1_ActiveWithinCopies ==
  \A b \in Books : 0 <= active_loans(b) /\ active_loans(b) <= copies_total[b]

\* C2: on a book with one copy and no loans, when only Borrow requests act
\* on it, exactly one of them creates a Loan and every other one is answered
\* NoCopiesAvailable.
C2_OneCopyOneLoan ==
  \A b \in Books :
    (copies_total[b] = 1 /\ NeverReturned(b)) =>
       /\ Cardinality(LoansOf(b)) <= 1
       /\ \A p \in Procs :
            (pc[p] = "done" /\ req[p].book_id = b) =>
               /\ outcome[p] \in {"Borrowed", "NoCopiesAvailable"}
               /\ Cardinality(LoansOf(b)) = 1

\* C3: a Borrow whose count of the book's active loans is at least
\* copies_total is answered NoCopiesAvailable and creates no Loan: the loan
\* table is the same after the step as before it.
C3_NoCopiesNoLoan ==
  [][\A p \in Procs :
       (/\ pc[p] = "count"
        /\ pc'[p] # "count"
        /\ active_loans(req[p].book_id) >= copies_total[req[p].book_id])
       => (/\ pc'[p] = "done"
           /\ outcome'[p] = "NoCopiesAvailable"
           /\ loans' = loans)]_vars

C3_Witness ==
  \E p \in Procs :
    /\ Answered(p, "borrow_book", "NoCopiesAvailable")
    /\ copies_total[req[p].book_id] >= 1
    /\ active_loans(req[p].book_id) = copies_total[req[p].book_id]

\* C4: with Borrow requests one after another, a request succeeds iff the
\* book's active-loan count is below copies_total at that moment, and each
\* success appends exactly one Loan for that book and user, returned_at
\* null, due_date = today + 14; from copies_total = 2 and no loans the
\* first two succeed and the third is answered NoCopiesAvailable.
C4_SerialBorrow ==
  [][\A p \in Procs :
       LET b == req[p].book_id
           free == active_loans(b) < copies_total[b]
       IN  /\ (pc[p] = "count" /\ pc'[p] # "count") =>
                 IF free
                   THEN pc'[p] = "create" /\ loans' = loans
                   ELSE Answered(p, "borrow_book", "NoCopiesAvailable")'
           /\ (pc[p] = "create" /\ pc'[p] # "create") =>
                 /\ free
                 /\ Answered(p, "borrow_book", "Borrowed")'
                 /\ loans' = Append(loans,
                       [book |-> b, user |-> req[p].user,
                        due_date |-> today + 14, returned_at |-> NULL])
                 /\ active_loans(b)' = active_loans(b) + 1]_vars

C4_Witness ==
  \E p \in Procs :
    /\ Answered(p, "borrow_book", "NoCopiesAvailable")
    /\ copies_total[req[p].book_id] = 2
    /\ LoansOf(req[p].book_id) = {1, 2}
    /\ NeverReturned(req[p].book_id)
    /\ \A i \in {1, 2} : loans[i].due_date = today + 14

\* C5: Return is idempotent: with the owner's Return requests one after
\* another, the first sets returned_at (the one Active -> Returned
\* transition) and a later one is answered AlreadyReturned and leaves
\* returned_at as the first wrote it.
C5_ReturnIdempotent ==
  [][\A p \in Procs :
       LET id == req'[p].loan_id
       IN  /\ (pc[p] = "idle" /\ pc'[p] # "idle"
                 /\ req'[p].view = "return_book") =>
                 /\ loans[id].user = req'[p].user
                 /\ loans' = loans
                 /\ IF loans[id].returned_at = NULL
                      THEN pc'[p] = "mark"
                      ELSE Answered(p, "return_book", "AlreadyReturned")'
           /\ (pc[p] = "mark" /\ pc'[p] # "mark"
                 /\ req[p].view = "return_book") =>
                 /\ loans[id].returned_at = NULL
                 /\ loans' = [loans EXCEPT ![id].returned_at = <<now'>>]
                 /\ writes'[id] = 1
                 /\ Answered(p, "return_book", "Returned")']_vars

C5_Witness ==
  \E p \in Procs :
    /\ Answered(p, "return_book", "AlreadyReturned")
    /\ req[p].user = loans[req[p].loan_id].user
    /\ writes[req[p].loan_id] = 1
    /\ loans[req[p].loan_id].returned_at # NULL

\* C6: of two concurrent Returns of one Active loan exactly one performs
\* the Active -> Returned transition and reports success, the other reports
\* AlreadyReturned, and returned_at is written once: a Return reports
\* success only for a loan that was Active when it wrote.
C6_OneTransition ==
  [][\A p \in Procs :
       (/\ pc[p] = "mark"
        /\ pc'[p] = "done"
        /\ outcome'[p] = "Returned")
       => (/\ loans[req[p].loan_id].returned_at = NULL
           /\ writes'[req[p].loan_id] = 1)]_vars

\* C7: a loan never reopens and its returned_at, once set, keeps its value
\* in every later state.
C7_ReturnedAtImmutable ==
  [][\A i \in LoanIds :
       loans[i].returned_at # NULL =>
          loans'[i].returned_at = loans[i].returned_at]_vars

\* C8 (as stated): a Return on the regular path by an actor who is not the
\* loan's borrower is answered NotOwner, which differs from the answer for
\* an absent loan id.
C8_NotOwnerDistinct ==
  \A u \in Users : \A id \in LoanIds :
    loans[id].user # u =>
       /\ return_book_response(u, id, "POST") = "NotOwner"
       /\ return_book_response(u, id, "POST")
            # return_book_response(u, Len(loans) + 1, "POST")

\* C8 (amended): a Return on the regular path by an actor who is not the
\* loan's borrower is answered with the same 404 as an absent loan id and
\* changes nothing; the regular path never sets returned_at on a loan of
\* another borrower.
C8_NotOwnerIs404 ==
  /\ [](\A u \in Users : \A id \in LoanIds :
          loans[id].user # u =>
             /\ return_book_response(u, id, "POST") = "Http404"
             /\ return_book_response(u, Len(loans) + 1, "POST") = "Http404")
  /\ [](\A p \in Procs :
          (pc[p] # "idle" /\ req[p].view = "return_book") =>
             loans[req[p].loan_id].user = req[p].user)
  /\ [][\A i \in LoanIds :
          loans'[i].returned_at # loans[i].returned_at =>
             \E p \in Procs :
                /\ pc[p] \in {"mark", "save"}
                /\ pc'[p] # pc[p] \/ local'[p] # local[p]
                /\ req[p].view = "return_book" =>
                     (req[p].loan_id = i /\ req[p].user = loans[i].user)]_vars

C8_Witness ==
  \E id \in LoanIds :
    /\ loans[id].user = "ana"
    /\ loans[id].returned_at = NULL
    /\ return_book_response("bob", id, "POST") = "Http404"
    /\ return_book_response("ana", id, "POST") = "mark"

\* C9: Borrow and Return refuse every non-POST call and change nothing: a
\* GET to borrow_book, return_book or admin_mark_returned is refused
\* whatever it names, and no request that goes on to create a Loan or set
\* returned_at is a GET.
C9_GetRefused ==
  /\ \A b \in BookIds : Refused(borrow_book_response(b, "GET"))
  /\ \A u \in Users : \A id \in 1..(Len(loans) + 1) :
       /\ Refused(return_book_response(u, id, "GET"))
       /\ Refused(admin_mark_returned_response(u, id, "GET"))
  /\ \A p \in Procs : pc[p] # "idle" => req[p].method = "POST"

C9_Witness ==
  \E id \in LoanIds : \E b \in Books :
    /\ loans[id].returned_at = NULL
    /\ only_available(b)
    /\ return_book_response(loans[id].user, id, "POST") = "mark"
    /\ return_book_response(loans[id].user, id, "GET") = "Http404"
    /\ admin_mark_returned_response("bob", id, "GET") = "Http404"
    /\ borrow_book_response(b, "POST") = "count"
    /\ borrow_book_response(b, "GET") = "Http404"

\* C10: the derived availability of a book, copies_total minus its active
\* loans, is never negative: not as the 'disponibilidade' sort key, not in
\* the availability filter, not in the exported column.
C10_AvailabilityNonNegative ==
  \A b \in Books :
    /\ disponiveis(b) >= 0
    /\ export_available(b) >= 0
    /\ only_available(b) => disponiveis(b) >= 1

\* C11: a Loan row appears only as the one row a successful borrow_book
\* appends, a returned_at goes from null to set only in a step of
\* return_book, admin_mark_returned or the admin bulk action, no step removes
\* or rewrites a Loan's book, user or due_date, and a step of a read-only
\* view (book_list as listing, suggestion or export, search_history,
\* my_loans, admin_book_borrowers, admin_overdue_loans) leaves the loan
\* table as it was.
ReadOnlyViews ==
  {"book_list", "search_history", "my_loans", "admin_book_borrowers",
   "admin_overdue_loans"}

ReturnViews == {"return_book", "admin_mark_returned", "marcar_como_devolvido"}

C12_Overdue ==
  /\ [](\A p \in Procs :
          (pc[p] = "done" /\ req[p].view = "admin_overdue_loans") =>
             response[p].loans =
               {i \in LoanIds :
                  loans[i].returned_at = NULL /\ loans[i].due_date < today})
  /\ [](\A i \in LoanIds :
          /\ loans[i].due_date = today => i \notin overdue(today)
          /\ loans[i].returned_at # NULL =>
                \A day \in 0..(MaxDay + LoanDays + 1) : i \notin overdue(day))
  /\ [][/\ \A p \in Procs :
            (pc[p] = "create" /\ pc'[p] = "done") =>
               /\ \A d \in 0..14 : Len(loans') \notin overdue(today + d)'
               /\ Len(loans') \in overdue(today + 15)'
        /\ \A i \in LoanIds :
             loans[i].returned_at # NULL => loans'[i].returned_at # NULL]_vars

C12_Witness ==
  \E p \in Procs : \E i, j \in LoanIds :
    /\ pc[p] = "done"
    /\ req[p].view = "admin_overdue_loans"
    /\ response[p].loans = {i}
    /\ loans[j].returned_at = NULL
    /\ loans[j].due_date > today

\* C13: a book_list request whose query carries no filter and no term adds
\* no SearchQuery; one answered as a listing whose query carries a term or a
\* filter (q, title, author, isbn not blank, disponivel = 1, categoria,
\* idioma, ano_min or ano_max given) adds exactly one, for its user and its
\* trimmed q, unless saving it failed; no request adds more than one.
Blank(s) == \A i \in 1..Len(s) : s[i] = " "

HasFilter(G) ==
  \/ ~Blank(G.q) \/ ~Blank(G.title) \/ ~Blank(G.author) \/ ~Blank(G.isbn)
  \/ G.disponivel = "1"
  \/ G.categoria # << >>
  \/ ~Blank(G.idioma)
  \/ G.ano_min # << >>
  \/ G.ano_max # << >>

Listed(p) == pc[p] = "done" /\ req[p].view = "book_list"

C14_RecordingBestEffort ==
  \A p \in Procs :
    Listed(p) =>
       /\ response[p].kind # "SessionError"
       /\ response[p].history = "failed" =>
             /\ response[p].kind = "listing"
             /\ response[p].total_count = Cardinality(qs_filter(query))

\* C15: books are independent under concurrent borrows: the count step of a
\* Borrow on book b is decided by b's copies_total and b's own active
\* loans alone and changes no loan; its create step adds one loan of b and
\* leaves the loans of every other book, and their number of active loans,
\* as they were, whatever requests on other books are in flight.
C15_BooksIndependent ==
  [][\A p \in Procs :
       LET b == req[p].book_id
           own == {i \in LoanIds :
                     loans[i].book = b /\ loans[i].returned_at = NULL}
       IN  /\ (pc[p] = "count" /\ pc'[p] # "count") =>
                 /\ loans' = loans
                 /\ IF Cardinality(own) >= copies_total[b]
                      THEN Answered(p, "borrow_book", "NoCopiesAvailable")'
                      ELSE pc'[p] = "create"
           /\ (pc[p] = "create" /\ pc'[p] # "create") =>
                 /\ LoansOf(b)' = LoansOf(b) \cup {Len(loans) + 1}
                 /\ \A i \in LoanIds : loans'[i] = loans[i]
                 /\ \A other \in Books \ {b} :
                      /\ LoansOf(other)' = LoansOf(other)
                      /\ active_loans(other)' = active_loans(other)]_vars

C15_Witness ==
  \E p, q \in Procs :
    /\ Answered(p, "borrow_book", "Borrowed")
    /\ pc[q] = "create"
    /\ req[q].book_id # req[p].book_id
    /\ LoansOf(req[q].book_id) = {}
    /\ copies_total[req[q].book_id] = 1

\* C16: with a term q that is not blank the books found are exactly those
\* whose title, author or isbn contains q whatever the case, among those the
\* availability, category, language and year filters keep, and the title,
\* author and isbn parameters change nothing; with q blank, each of title,
\* author and isbn that is given must be contained, whatever the case, in
\* the book's field, all of them together.
TextFields == {"title", "author", "isbn"}

Matches(b, G) ==
  /\ IF ~Blank(G.q)
       THEN \E f \in TextFields : icontains(book[b][f], strip(G.q))
       ELSE \A f \in TextFields :
              Blank(G[f]) \/ icontains(book[b][f], strip(G[f]))
  /\ show_only_available(G) => only_available(b)
  /\ category_filter(b, G)
  /\ language_filter(b, G)
  /\ year_filter(b, G)

Range(seq) == {seq[i] : i \in DOMAIN seq}

Found(p) ==
  IF response[p].kind = "listing"
    THEN Range(response[p].books)
    ELSE {response[p].rows[i].book : i \in DOMAIN response[p].rows}

C16_SearchFilter ==
  \A p \in Procs :
    (Listed(p) /\ response[p].kind \in {"listing", "csv", "xlsx"}) =>
       /\ response[p].kind = "listing" =>
             response[p].total_count =
               Cardinality({b \in Books : Matches(b, query)})
       /\ (response[p].kind = "listing" => response[p].number = 0) =>
             Found(p) = {b \in Books : Matches(b, query)}
       /\ ~Blank(query.q) =>
             Found(p) \subseteq
               {b \in Books : Matches(b, [query EXCEPT !.title = << >>,
                                  !.author = << >>, !.isbn = << >>])}

C16_Witness ==
  \E p \in Procs :
    /\ Listed(p)
    /\ response[p].kind = "listing"
    /\ response[p].number = 0
    /\ query.q = <<"b">>
    /\ query.title = <<"a">>
    /\ Cardinality(Found(p)) = 3

\* C17: for the same filters and sort key, the unpaginated listing holds
\* every matching book, each page holds at most 20 books, and the pages
\* 1..k one after the other are the unpaginated sequence: the same books
\* in the same order, none missing and none twice.
RECURSIVE Concat(_, _)
Concat(pages, k) ==
  IF k = 0 THEN << >> ELSE Concat(pages, k - 1) \o pages[k]

AllPagesShown ==
  /\ shown.on
  /\ shown.todos # << >>
  /\ DOMAIN shown.pages = 1..num_pages(Len(shown.todos[1]))

C17_PagesAreTheWholeList ==
  /\ \A p \in Procs :
       (Listed(p) /\ response[p].kind = "listing") =>
          IF response[p].number = 0
            THEN Range(response[p].books) = {b \in Books : Matches(b, query)}
            ELSE Len(response[p].books) <= PageSize
  /\ AllPagesShown =>
       Concat(shown.pages, num_pages(Len(shown.todos[1]))) = shown.todos[1]

\* C18: with ordenar=disponibilidade the books come in ascending order of
\* copies_total minus the number of the book's loans with returned_at null,
\* books equal on that by title; copies 2, 0, 1 with nothing on loan come
\* out as 0, 1, 2; the loans counted are those of the moment of the search,
\* so a loan made or returned since the last search moves the book.
Availability(b) ==
  copies_total[b]
    - Cardinality({i \in LoanIds :
                     loans[i].book = b /\ loans[i].returned_at = NULL})

ByAvailability(books) ==
  \A i, j \in DOMAIN books :
     i < j =>
       \/ Availability(books[i]) < Availability(books[j])
       \/ /\ Availability(books[i]) = Availability(books[j])
          /\ ~TextLess(book[books[j]].title, book[books[i]].title)

SortedByAvailability(p) ==
  /\ Listed(p)
  /\ response[p].kind = "listing"
  /\ query.ordenar = "disponibilidade"

C18_OrderByAvailability ==
  \A p \in Procs :
    SortedByAvailability(p) =>
       /\ ByAvailability(response[p].books)
       /\ (Blank(query.q) /\ \A b \in Books : Availability(b) = copies_total[b])
             => [i \in DOMAIN response[p].books |->
                   Availability(response[p].books[i])] = <<0, 1, 2>>

C18_Witness ==
  \E p \in Procs :
    /\ SortedByAvailability(p)
    /\ response[p].books = <<"C", "B", "A">>
    /\ \E i \in LoanIds : loans[i].returned_at # NULL

\* C19: an export has one row per book of the filtered, ordered sequence
\* the unpaginated listing shows; the row's Available is copies_total minus
\* the book's loans with returned_at null, or 0 if that is negative; its
\* category name and its edition year are empty when the book has none.
InOrder(books, ordenar) ==
  IF ordenar = "disponibilidade" THEN ByAvailability(books)
  ELSE \A i, j \in DOMAIN books :
         i < j =>
           IF ordenar = "author"
             THEN \/ TextLess(Lower(book[books[i]].author),
                              Lower(book[books[j]].author))
                  \/ /\ Lower(book[books[i]].author)
                          = Lower(book[books[j]].author)
                     /\ ~TextLess(book[books[j]].title, book[books[i]].title)
             ELSE ~TextLess(Lower(book[books[j]].title),
                            Lower(book[books[i]].title))

Exported(p) == Listed(p) /\ response[p].kind \in {"csv", "xlsx"}

RowOf(b, row) ==
  /\ row.title = book[b].title
  /\ row.author = book[b].author
  /\ row.isbn = book[b].isbn
  /\ row.language = book[b].language
  /\ row.available = IF Availability(b) > 0 THEN Availability(b) ELSE 0
  /\ row.category = IF book[b].category = << >>
                      THEN << >> ELSE CategoryName(book[b].category[1])
  /\ row.edition_year = book[b].edition_year

C19_ExportRows ==
  \A p \in Procs :
    Exported(p) =>
      LET rows == response[p].rows
          books == [i \in DOMAIN rows |-> rows[i].book]
      IN  /\ Range(books) = {b \in Books : Matches(b, query)}
          /\ Len(rows) = Cardinality(Range(books))
          /\ InOrder(books, query.ordenar)
          /\ \A i \in DOMAIN rows : RowOf(books[i], rows[i])

C19_Witness ==
  \E p \in Procs :
    /\ Exported(p)
    /\ Len(response[p].rows) = 3
    /\ \E i \in 1..3 :
         /\ Availability(response[p].rows[i].book) < 0
         /\ response[p].rows[i].available = 0
    /\ \E i \in 1..3 :
         /\ response[p].rows[i].category = << >>
         /\ response[p].rows[i].edition_year = << >>

\* C20: an invalid parameter is never fatal: the request is answered
\* normally, a categoria, ano_min or ano_max that is not a number is left
\* out while the other filters apply, and an ordenar that is not a known
\* key sorts by title.
NotANumber(s) == s # << >> /\ \E i \in 1..Len(s) : s[i] \notin Decimals

Dropped(s) == IF NotANumber(s) THEN << >> ELSE s

Valid(G) ==
  [G EXCEPT !.categoria = Dropped(G.categoria),
            !.ano_min = Dropped(G.ano_min),
            !.ano_max = Dropped(G.ano_max),
            !.ordenar = IF G.ordenar \in {"author", "disponibilidade"}
                          THEN G.ordenar ELSE "title"]

InvalidIgnored(p) ==
  (response[p].kind \in {"csv", "xlsx"}
     \/ (response[p].kind = "listing" /\ response[p].number = 0)) =>
       /\ Found(p) = {b \in Books : Matches(b, Valid(query))}
       /\ response[p].kind = "listing" =>
             InOrder(response[p].books, Valid(query).ordenar)

C20_InvalidParametersNotFatal ==
  \A p \in Procs :
    Listed(p) => (response[p].kind # "ValueError" /\ InvalidIgnored(p))

\* C21: the privileged path (admin_mark_returned and the admin bulk action)
\* sets returned_at on an Active loan whoever its borrower is, is open to
\* staff only, and on a loan already returned changes nothing; and no
\* operation lets a user who is not staff set returned_at on a loan that
\* another user borrowed.
PrivilegedViews == {"admin_mark_returned", "marcar_como_devolvido"}

Begins(p, v) == pc[p] = "idle" /\ pc'[p] # "idle" /\ req'[p].view = v

Steps(p) == pc[p] # "idle" /\ (pc'[p] # pc[p] \/ local'[p] # local[p])

C21_PrivilegedPath ==
  /\ [](\A u \in Users : \A id \in LoanIds :
          admin_mark_returned_response(u, id, "POST") =
            IF u \notin Staff THEN "LoginRedirect"
            ELSE IF loans[id].returned_at = NULL THEN "mark"
            ELSE "Redirect")
  /\ [](\A p \in Procs :
          (pc[p] # "idle" /\ req[p].view \in PrivilegedViews) =>
             req[p].user \in Staff)
  /\ [][\A p \in Procs :
          /\ Begins(p, "admin_mark_returned") =>
                /\ loans' = loans
                /\ IF loans[req'[p].loan_id].returned_at = NULL
                     THEN pc'[p] = "mark"
                     ELSE Answered(p, "admin_mark_returned", "Redirect")'
          /\ Begins(p, "marcar_como_devolvido") =>
                /\ loans' = loans
                /\ local'[p].todo =
                     {i \in req'[p].sel : loans[i].returned_at = NULL}
                /\ local'[p].todo = {} <=> pc'[p] = "done"
          /\ (Steps(p) /\ pc[p] = "mark"
                /\ req[p].view = "admin_mark_returned") =>
                loans' = [loans EXCEPT
                            ![req[p].loan_id].returned_at = <<now'>>]
          /\ (Steps(p) /\ pc[p] = "save") =>
                \E i \in local[p].todo :
                   loans' = [loans EXCEPT
                               ![i].returned_at = <<local[p].now>>]]_vars
  /\ [][\A i \in LoanIds :
          loans'[i].returned_at # loans[i].returned_at =>
             \E p \in Procs :
                /\ Steps(p)
                /\ req[p].user \in Staff \/ req[p].user = loans[i].user]_vars

C21_Witness ==
  \E p \in Procs :
    /\ Answered(p, "admin_mark_returned", "Returned")
    /\ req[p].user \in Staff
    /\ loans[req[p].loan_id].user \notin Staff
    /\ loans[req[p].loan_id].returned_at = <<now>>
    /\ writes[req[p].loan_id] = 1

\* C22: the admin bulk action transitions exactly the selected loans that
\* are Active, all to the one timestamp it took, counts one for each loan
\* it transitions, and leaves every selected loan that is already returned
\* and every unselected loan as it is, also when a Return of a selected
\* loan completes while the action is iterating.
C22_BulkAction ==
  [][\A p \in Procs :
       /\ Begins(p, "marcar_como_devolvido") =>
             /\ loans' = loans
             /\ local'[p].updated = 0
       /\ (Steps(p) /\ pc[p] = "save") =>
             \E i \in req[p].sel :
                /\ loans[i].returned_at = NULL
                /\ loans' = [loans EXCEPT
                              ![i].returned_at = <<local[p].now>>]
                /\ local'[p].updated = local[p].updated + 1]_vars

\* C23: a search answered as a suggestion (suggest=1 with a q that is not
\* blank) or as an export (export=csv or export=xlsx) records no
\* SearchQuery, whatever term or filters it carries; only a request
\* answered as a listing can record one.
C23_OnlyListingsRecorded ==
  [][\A p \in Procs :
       (pc[p] = "idle" /\ Listed(p)') =>
          /\ response'[p].kind = "suggest" => ~Blank(query.q)
          /\ response'[p].kind \in {"suggest", "csv", "xlsx"} =>
                searches' = searches
          /\ searches' # searches => response'[p].kind = "listing"]_vars

C23_Witness ==
  \E p \in Procs :
    /\ Listed(p)
    /\ response[p].kind = "csv"
    /\ Len(response[p].rows) > 0
    /\ ~Blank(query.q)
    /\ query.title # << >>
    /\ searches = << >>

====
